---- MODULE Spec2Model ----
(***************************************************************************)
(* Model of work-tracker (ViddeM/work-tracker): a command line task list   *)
(* kept in one RON file.  Every run of `main` loads the file, executes one *)
(* arm of `match args.action`, possibly saves, and exits.  One action of   *)
(* this module is one such run.                                            *)
(*                                                                         *)
(* main.rs is self-contained (it declares no `mod`): the WorkDataFile,     *)
(* WorkEntry, FileVersion and WorkEntryStatus that `main` runs are the     *)
(* ones in main.rs.  work_data_file.rs, work_entry.rs, work_entry_id.rs    *)
(* and work_entry_status.rs hold the nested-schema generation of the same  *)
(* types; FileVersion::current and WorkEntryId::next are taken from there. *)
(***************************************************************************)
EXTENDS Integers, Sequences, FiniteSets, TLC

\* ---------------------------------------------------------------- bounds
MaxAdds == 1          \* add_entry calls explored in one behaviour of Spec
MaxStoreAdds == 3     \* add_entry calls explored in one behaviour of SpecStore
MaxTime == 1          \* largest reading of the clock explored
MaxSaved == 2         \* entries of the stores saved and loaded again in SpecRoundTrip
MaxConcRuns == 3      \* invocations of main started in one behaviour of SpecConc

\* ------------------------------------------------------------- constants
\* mutation of MAX_NAME_LENGTH: the limit is one character short
MAX_NAME_LENGTH_short == 28 - 1

MAX_NAME_LENGTH == 28

Name28 == "abcdefghijklmnopqrstuvwxyz01"
Name29 == "abcdefghijklmnopqrstuvwxyz012"
Names == {Name28, Name29}
Descriptions == {"kitchen"}
Ids == 0..(MaxStoreAdds - 1)

\* Option<T>: None is the empty sequence, Some(x) the one-element sequence.
None == <<>>
Some(x) == <<x>>
OptDescriptions == {None} \cup {Some(d) : d \in Descriptions}
OptIds == {None} \cup {Some(i) : i \in Ids}

VARIABLES
    file,       \* ~/.config/work-tracker.ron: [exists, bytes]
    wd_file,    \* the in-memory WorkDataFile of the latest run, at its exit
    last,       \* what the latest run was and how it ended
    now,        \* latest reading of Utc::now()
    assigned,   \* history: the ids WorkDataFile::add_entry has handed out
    onlyAdds,   \* history: every run so far was an `add`
    procs       \* SpecConc: the runs of main that are under way at the same time

vars == <<file, wd_file, last, now, assigned, onlyAdds, procs>>

\* ------------------------------------------------------------ pure parts
\* mutation of SeqMax: the id of the first entry instead of the largest id
SeqFirst(s) == s[1].id

RECURSIVE SeqMax(_)
\* Iterator::max over the ids of a non-empty sequence of entries
SeqMax(s) ==
    IF Len(s) = 1 THEN s[1].id
    ELSE LET m == SeqMax(Tail(s)) IN IF s[1].id > m THEN s[1].id ELSE m

\* mutation of WorkEntryId_next: the increment is lost
WorkEntryId_same(id) == id

\* WorkEntryId::next
WorkEntryId_next(id) == id + 1

\* mutation of WorkEntryId_default: numbering starts at one
WorkEntryId_one == 0 + 1

\* WorkEntryId::default
WorkEntryId_default == 0

\* FileVersion::current
FileVersion_current == "Nested"

\* WorkDataFile::new
WorkDataFile_new == [version |-> "Initial", entries |-> <<>>]

\* mutation of WorkEntry_new: the two readings of the clock are swapped
WorkEntry_new_swapped(id, name, description, t1, t2) ==
    [id |-> id, name |-> name, description |-> description,
     created_at |-> t2, modified_at |-> t1, status |-> "Created",
     children |-> <<>>]

\* WorkEntry::new; t1 and t2 are the two readings of Utc::now()
WorkEntry_new(id, name, description, t1, t2) ==
    [id |-> id, name |-> name, description |-> description,
     created_at |-> t1, modified_at |-> t2, status |-> "Created",
     children |-> <<>>]

\* WorkEntry::complete
WorkEntry_complete(e, t) ==
    [e EXCEPT !.modified_at = t, !.status = "Completed"]

\* WorkEntry::is_completed
is_completed(e) == e.status = "Completed"

\* WorkDataFile::add_entry
add_entry(wd, name, description, t1, t2) ==
    LET highest_num == IF wd.entries = <<>> THEN WorkEntryId_default
                       ELSE WorkEntryId_next(SeqMax(wd.entries))
    IN [wd EXCEPT !.entries =
            Append(@, WorkEntry_new(highest_num, name, description, t1, t2))]

\* mutation of FindFrom: a missing id resolves to the last entry
FindOrLast(entries, id, i) ==
    IF \E k \in i..Len(entries) : entries[k].id = id
    THEN CHOOSE k \in i..Len(entries) :
            entries[k].id = id /\ \A j \in i..(k - 1) : entries[j].id # id
    ELSE Len(entries)

RECURSIVE FindFrom(_, _, _)
\* position of the first entry with the given id at or after position i, 0 if none
FindFrom(entries, id, i) ==
    IF i > Len(entries) THEN 0
    ELSE IF entries[i].id = id THEN i
    ELSE FindFrom(entries, id, i + 1)

\* WorkDataFile::get_index_for_id (1-based; 0 stands for the Err)
get_index_for_id(wd, id) == FindFrom(wd.entries, id, 1)

\* Vec::remove
RemoveAt(s, i) == SubSeq(s, 1, i - 1) \o SubSeq(s, i + 1, Len(s))

RECURSIVE FirstActive(_, _)
\* mutation of LastActive: .next() instead of .last(), the first hit is kept
FirstActive(entries, acc) ==
    IF entries = <<>> THEN acc
    ELSE IF entries[1].status # "Completed" THEN <<entries[1]>>
    ELSE FirstActive(Tail(entries), acc)

RECURSIVE LastActive(_, _)
\* .iter().filter(|e| !e.is_completed()).last(): scans to the end, keeps the latest hit
LastActive(entries, acc) ==
    IF entries = <<>> THEN acc
    ELSE LastActive(Tail(entries),
                    IF is_completed(Head(entries)) THEN acc ELSE Some(Head(entries)))

\* WorkDataFile::get_entry_or_first ("NotFound" stands for the Err)
get_entry_or_first(wd, id) ==
    IF id # None
    THEN LET i == get_index_for_id(wd, id[1])
         IN IF i = 0 THEN [res |-> "NotFound", entry |-> None]
            ELSE [res |-> "Ok", entry |-> Some(wd.entries[i])]
    ELSE [res |-> "Ok", entry |-> LastActive(wd.entries, None)]

RECURSIVE ListKept(_, _, _)
\* mutation of ListRows: the loop walks the entries front to back (no .rev())
ListKept(entries, all, i) ==
    IF i = 0 THEN <<>>
    ELSE IF ~all /\ entries[i].status = "Completed" THEN ListKept(entries, all, i - 1)
    ELSE ListKept(entries, all, i - 1) \o <<entries[i]>>

RECURSIVE ListRows(_, _, _)
\* the loop of the List arm: entries.iter().rev(), skipping completed unless `all`
ListRows(entries, all, i) ==
    IF i = 0 THEN <<>>
    ELSE IF ~all /\ is_completed(entries[i]) THEN ListRows(entries, all, i - 1)
    ELSE <<entries[i]>> \o ListRows(entries, all, i - 1)

\* ------------------------------------------------------ the file format
\* ron::to_string of an Option
ser_opt(o) == IF o = None THEN <<"None">> ELSE <<"Some", o[1]>>

\* mutation of de_opt: Some(..) is read back as None
de_opt_none(t) == None

\* ron::from_str of an Option
de_opt(t) == IF t[1] = "None" THEN None ELSE Some(t[2])

\* ron::to_string of a WorkEntry: the fields in declaration order
ser_entry(e) ==
    <<e.id, e.name, ser_opt(e.description), e.created_at, e.modified_at,
      e.status, e.children>>

\* ron::from_str of a WorkEntry
de_entry(t) ==
    [id |-> t[1], name |-> t[2], description |-> de_opt(t[3]),
     created_at |-> t[4], modified_at |-> t[5], status |-> t[6],
     children |-> t[7]]

\* ron::to_string(&wd_file)
ron_to_string(wd) ==
    <<wd.version, [i \in 1..Len(wd.entries) |-> ser_entry(wd.entries[i])]>>

\* ron::from_str succeeds on the text
WellFormed(bytes) == Len(bytes) = 2

\* ron::from_str::<WorkDataFile>(&buf)
ron_from_str(bytes) ==
    [version |-> bytes[1],
     entries |-> [i \in 1..Len(bytes[2]) |-> de_entry(bytes[2][i])]]

\* WorkDataFile::save: File::create then write_all
save(wd) == [exists |-> TRUE, bytes |-> ron_to_string(wd)]

\* get_or_create_file_file: the store it returns and the file it leaves
get_or_create_file_file(f) ==
    IF ~f.exists
    THEN [res |-> "Ok", wd |-> WorkDataFile_new,
          file |-> [exists |-> TRUE, bytes |-> ron_to_string(WorkDataFile_new)]]
    ELSE IF ~WellFormed(f.bytes)
    THEN [res |-> "ParseError", wd |-> WorkDataFile_new, file |-> f]
    ELSE [res |-> "Ok", wd |-> ron_from_str(f.bytes), file |-> f]

\* ------------------------------------------------------------------ Init
Statuses == {"Created", "Completed"}
OptStatuses == {None} \cup {Some(st) : st \in Statuses}

\* the record kept of a run: the command line, the result main returned, whether
\* WorkDataFile::save ran, and the entries printed
Outcome(cmd, id, status, res, saved, out) ==
    [cmd |-> cmd, id |-> id, status |-> status, res |-> res, saved |-> saved,
     out |-> out]

\* the invocations of main that may overlap
Procs == {1, 2}

\* an invocation that has not started: where it stands, its command line, the
\* store it holds, the store it loaded, its result, whether the latest
\* write_all that reached the file was its own, and the runs it has made
IdleProc ==
    [pc |-> "idle", cmd |-> "none", arg |-> None, wd |-> WorkDataFile_new,
     base |-> WorkDataFile_new, res |-> "Ok", wrote |-> FALSE, runs |-> 0]

Init ==
    /\ file = [exists |-> FALSE, bytes |-> <<>>]
    /\ wd_file = WorkDataFile_new
    /\ last = Outcome("start", None, None, "Ok", FALSE, <<>>)
    /\ now = 0
    /\ assigned = <<>>
    /\ onlyAdds = TRUE
    /\ procs = [p \in Procs |-> IdleProc]

\* a run of main whose get_or_create_file_file failed: `?` returns before the match
LoadFailed(L, cmd, id) ==
    /\ file' = L.file
    /\ last' = Outcome(cmd, id, None, L.res, FALSE, <<>>)
    /\ UNCHANGED <<wd_file, now, assigned>>

\* a run that ends without writing the file and without reading the clock
ReadOnly(L, wd, cmd, id, res, out) ==
    /\ file' = L.file
    /\ wd_file' = wd
    /\ last' = Outcome(cmd, id, None, res, FALSE, out)
    /\ UNCHANGED <<now, assigned>>

\* a run that ends with wd_file.save(&config_path)
Saved(wd, cmd, id) ==
    /\ file' = save(wd)
    /\ wd_file' = wd
    /\ last' = Outcome(cmd, id, None, "Ok", TRUE, <<>>)

\* ------------------------------------------------------- the arms of main
\* None => print the latest entry that is not completed
NoCommand ==
    LET L == get_or_create_file_file(file) IN
    /\ onlyAdds' = FALSE
    /\ UNCHANGED procs
    /\ IF L.res # "Ok" THEN LoadFailed(L, "none", None)
       ELSE ReadOnly(L, L.wd, "none", None, "Ok", LastActive(L.wd.entries, None))

\* Some(WorkAction::Add { name, description })
Add(name, description, t1, t2) ==
    LET L == get_or_create_file_file(file) IN
    /\ now <= t1 /\ t1 <= t2
    /\ UNCHANGED <<onlyAdds, procs>>
    /\ IF L.res # "Ok" THEN LoadFailed(L, "add", None)
       ELSE IF Len(name) > MAX_NAME_LENGTH
       THEN /\ t2 = now
            /\ ReadOnly(L, L.wd, "add", None, "ValidationError", <<>>)
       ELSE /\ LET wd == add_entry(L.wd, name, description, t1, t2)
               IN /\ Saved(wd, "add", Some(wd.entries[Len(wd.entries)].id))
                  /\ assigned' = Append(assigned, wd.entries[Len(wd.entries)].id)
            /\ now' = t2

\* Some(WorkAction::List { all })
List(all) ==
    LET L == get_or_create_file_file(file) IN
    /\ onlyAdds' = FALSE
    /\ UNCHANGED procs
    /\ IF L.res # "Ok" THEN LoadFailed(L, "list", None)
       ELSE ReadOnly(L, L.wd, IF all THEN "list_all" ELSE "list", None, "Ok",
                     ListRows(L.wd.entries, all, Len(L.wd.entries)))

\* Some(WorkAction::Remove { id })
Remove(id) ==
    LET L == get_or_create_file_file(file)
        index == get_index_for_id(L.wd, id) IN
    /\ onlyAdds' = FALSE
    /\ UNCHANGED procs
    /\ IF L.res # "Ok" THEN LoadFailed(L, "remove", Some(id))
       ELSE IF index = 0
       THEN ReadOnly(L, L.wd, "remove", Some(id), "NotFound", <<>>)
       ELSE /\ Saved([L.wd EXCEPT !.entries = RemoveAt(@, index)], "remove", Some(id))
            /\ UNCHANGED <<now, assigned>>

\* mutation of Complete: the eyre::ensure! on is_completed is missing
Complete_unguarded(id, t) ==
    LET L == get_or_create_file_file(file)
        index == get_index_for_id(L.wd, id) IN
    /\ now <= t
    /\ onlyAdds' = FALSE
    /\ UNCHANGED procs
    /\ IF L.res # "Ok" THEN LoadFailed(L, "complete", Some(id))
       ELSE IF index = 0
       THEN /\ t = now
            /\ ReadOnly(L, L.wd, "complete", Some(id), "NotFound", <<>>)
       ELSE /\ Saved([L.wd EXCEPT !.entries[index] = WorkEntry_complete(@, t)],
                     "complete", Some(id))
            /\ now' = t
            /\ UNCHANGED assigned

\* Some(WorkAction::Complete { id })
Complete(id, t) ==
    LET L == get_or_create_file_file(file)
        index == get_index_for_id(L.wd, id) IN
    /\ now <= t
    /\ onlyAdds' = FALSE
    /\ UNCHANGED procs
    /\ IF L.res # "Ok" THEN LoadFailed(L, "complete", Some(id))
       ELSE IF index = 0
       THEN /\ t = now
            /\ ReadOnly(L, L.wd, "complete", Some(id), "NotFound", <<>>)
       ELSE IF is_completed(L.wd.entries[index])
       THEN /\ t = now
            /\ ReadOnly(L, L.wd, "complete", Some(id), "AlreadyCompleted", <<>>)
       ELSE /\ Saved([L.wd EXCEPT !.entries[index] = WorkEntry_complete(@, t)],
                     "complete", Some(id))
            /\ now' = t
            /\ UNCHANGED assigned

\* mutation of Prio: the entry changes places with the last one (Vec::swap)
Prio_swap(id, t) ==
    LET L == get_or_create_file_file(file)
        index == get_index_for_id(L.wd, id) IN
    /\ now <= t
    /\ onlyAdds' = FALSE
    /\ UNCHANGED procs
    /\ IF L.res # "Ok" THEN LoadFailed(L, "prio", Some(id))
       ELSE IF index = 0
       THEN /\ t = now
            /\ ReadOnly(L, L.wd, "prio", Some(id), "NotFound", <<>>)
       ELSE /\ LET es == L.wd.entries
                   n == Len(es)
                   entry == [es[index] EXCEPT !.modified_at = t]
               IN Saved([L.wd EXCEPT !.entries =
                             [k \in 1..n |-> IF k = n THEN entry
                                             ELSE IF k = index THEN es[n]
                                             ELSE es[k]]],
                        "prio", Some(id))
            /\ now' = t
            /\ UNCHANGED assigned

\* mutation of Prio: the entry is put back at the front of the Vec
Prio_front(id, t) ==
    LET L == get_or_create_file_file(file)
        index == get_index_for_id(L.wd, id) IN
    /\ now <= t
    /\ onlyAdds' = FALSE
    /\ UNCHANGED procs
    /\ IF L.res # "Ok" THEN LoadFailed(L, "prio", Some(id))
       ELSE IF index = 0
       THEN /\ t = now
            /\ ReadOnly(L, L.wd, "prio", Some(id), "NotFound", <<>>)
       ELSE /\ LET entry == [L.wd.entries[index] EXCEPT !.modified_at = t]
               IN Saved([L.wd EXCEPT !.entries = <<entry>> \o RemoveAt(@, index)],
                        "prio", Some(id))
            /\ now' = t
            /\ UNCHANGED assigned

\* Some(WorkAction::Prio { id })
Prio(id, t) ==
    LET L == get_or_create_file_file(file)
        index == get_index_for_id(L.wd, id) IN
    /\ now <= t
    /\ onlyAdds' = FALSE
    /\ UNCHANGED procs
    /\ IF L.res # "Ok" THEN LoadFailed(L, "prio", Some(id))
       ELSE IF index = 0
       THEN /\ t = now
            /\ ReadOnly(L, L.wd, "prio", Some(id), "NotFound", <<>>)
       ELSE /\ LET entry == [L.wd.entries[index] EXCEPT !.modified_at = t]
               IN Saved([L.wd EXCEPT !.entries = Append(RemoveAt(@, index), entry)],
                        "prio", Some(id))
            /\ now' = t
            /\ UNCHANGED assigned

\* mutation of Edit: the subcommand takes a status and writes it to the entry
Edit_with_status(id, description, status) ==
    LET L == get_or_create_file_file(file)
        index == get_index_for_id(L.wd, id) IN
    /\ onlyAdds' = FALSE
    /\ UNCHANGED procs
    /\ IF L.res # "Ok" THEN LoadFailed(L, "edit", Some(id))
       ELSE IF index = 0
       THEN ReadOnly(L, L.wd, "edit", Some(id), "NotFound", <<>>)
       ELSE /\ file' = L.file
            /\ wd_file' = [L.wd EXCEPT
                  !.entries[index].description = Some(description),
                  !.entries[index].status = IF status = None THEN @ ELSE status[1]]
            /\ last' = Outcome("edit", Some(id), status, "Ok", FALSE, <<>>)
            /\ UNCHANGED <<now, assigned>>

\* Some(WorkAction::Edit { id, description }).  The subcommand has the two
\* positional arguments id and description and nothing else: a command line
\* that also carries a status is refused by Args::parse() before the file is
\* touched.
Edit(id, description, status) ==
    LET L == get_or_create_file_file(file)
        index == get_index_for_id(L.wd, id) IN
    /\ onlyAdds' = FALSE
    /\ UNCHANGED procs
    /\ IF status # None
       THEN /\ last' = Outcome("edit", Some(id), status, "UsageError", FALSE, <<>>)
            /\ UNCHANGED <<file, wd_file, now, assigned>>
       ELSE IF L.res # "Ok" THEN LoadFailed(L, "edit", Some(id))
       ELSE IF index = 0
       THEN ReadOnly(L, L.wd, "edit", Some(id), "NotFound", <<>>)
       ELSE ReadOnly(L, [L.wd EXCEPT !.entries[index].description = Some(description)],
                     "edit", Some(id), "Ok", <<>>)

\* Some(WorkAction::Show { id }); WorkEntryStatus::to_colored_string of main.rs
\* is todo!() for Completed
Show(id) ==
    LET L == get_or_create_file_file(file)
        found == get_entry_or_first(L.wd, id) IN
    /\ onlyAdds' = FALSE
    /\ UNCHANGED procs
    /\ IF L.res # "Ok" THEN LoadFailed(L, "show", id)
       ELSE IF found.res # "Ok"
       THEN ReadOnly(L, L.wd, "show", id, found.res, <<>>)
       ELSE IF found.entry # None /\ is_completed(found.entry[1])
       THEN ReadOnly(L, L.wd, "show", id, "Panic", <<>>)
       ELSE ReadOnly(L, L.wd, "show", id, "Ok", found.entry)

Times == 0..MaxTime

\* every command line, over the whole input sets
Next ==
    \/ NoCommand
    \/ \E name \in Names, description \in OptDescriptions, t1 \in Times, t2 \in Times :
          /\ Len(assigned) < MaxAdds \/ Len(name) > MAX_NAME_LENGTH
          /\ Add(name, description, t1, t2)
    \/ \E all \in BOOLEAN : List(all)
    \/ \E id \in 0..MaxAdds : Remove(id)
    \/ \E id \in 0..MaxAdds, t \in Times : Complete(id, t)
    \/ \E id \in 0..MaxAdds, t \in Times : Prio(id, t)
    \/ \E id \in 0..MaxAdds, description \in Descriptions, status \in OptStatuses :
          Edit(id, description, status)
    \/ \E id \in {None} \cup {Some(i) : i \in 0..MaxAdds} : Show(id)

Spec == Init /\ [][Next]_vars

\* every command with one more add, the clock standing still and no description
\* given to add: the runs on which identifiers, order and status depend
NextStore ==
    \/ NoCommand
    \/ \E name \in Names :
          /\ Len(assigned) < MaxStoreAdds \/ Len(name) > MAX_NAME_LENGTH
          /\ Add(name, None, now, now)
    \/ \E all \in BOOLEAN : List(all)
    \/ \E id \in Ids : Remove(id)
    \/ \E id \in Ids : Complete(id, now)
    \/ \E id \in Ids : Prio(id, now)
    \/ \E id \in Ids, description \in Descriptions, status \in OptStatuses :
          Edit(id, description, status)
    \/ \E id \in OptIds : Show(id)

SpecStore == Init /\ [][NextStore]_vars

\* WorkDataFile::add_child_entry: the body is todo!("Not updated"), which panics
\* whatever the arguments are; the store is left as it was
add_child_entry(wd, name, description, parent) == [res |-> "Panic", wd |-> wd]

\* a call of add_child_entry on the store in memory; parent is a WorkEntryIdFull
\* of one component
AddChild(name, description, parent) ==
    LET r == add_child_entry(wd_file, name, description, parent) IN
    /\ wd_file' = r.wd
    /\ last' = Outcome("add_child", Some(parent[1]), None, r.res, FALSE, <<>>)
    /\ onlyAdds' = FALSE
    /\ UNCHANGED procs
    /\ UNCHANGED <<file, now, assigned>>

\* the commands of SpecStore and the calls of add_child_entry
NextApi ==
    \/ NextStore
    \/ \E name \in Names, parent \in {<<i>> : i \in Ids} : AddChild(name, None, parent)

SpecApi == Init /\ [][NextApi]_vars

\* add, complete and prio with the clock running for prio: the runs on which
\* the order of the entries and their modified_at depend
NextPrio ==
    \/ /\ Len(assigned) < MaxStoreAdds
       /\ Add(Name28, None, now, now)
    \/ \E id \in Ids : Complete(id, now)
    \/ \E id \in Ids, t \in Times : Prio(id, t)

SpecPrio == Init /\ [][NextPrio]_vars

\* the stores save is applied to: every version tag, one to MaxSaved entries
\* with distinct ids, every description and status, modified_at equal to
\* created_at or later
SavedEntries ==
    {[id |-> id, name |-> Name28, description |-> d, created_at |-> 0,
      modified_at |-> m, status |-> st, children |-> <<>>] :
        id \in 0..(MaxSaved - 1), d \in OptDescriptions, m \in {0, 1},
        st \in Statuses}

SavedStores ==
    {[version |-> v, entries |-> es] :
        v \in {"Initial", "Nested"},
        es \in {s \in UNION {[1..n -> SavedEntries] : n \in 1..MaxSaved} :
                  \A i, j \in DOMAIN s : i # j => s[i].id # s[j].id}}

InitRoundTrip ==
    /\ wd_file \in SavedStores
    /\ file = [exists |-> FALSE, bytes |-> <<>>]
    /\ last = Outcome("start", None, None, "Ok", FALSE, <<>>)
    /\ now = 0
    /\ assigned = <<>>
    /\ onlyAdds = TRUE
    /\ procs = [p \in Procs |-> IdleProc]

\* wd_file.save(&config_path), then get_or_create_file_file(&config_path) of
\* the next run; the store it returns is kept in last.out
SaveThenLoad ==
    LET L == get_or_create_file_file(save(wd_file)) IN
    /\ last.cmd = "start"
    /\ file' = L.file
    /\ last' = Outcome("load", None, None, L.res, TRUE, <<L.wd>>)
    /\ UNCHANGED <<wd_file, now, assigned, onlyAdds, procs>>

SpecRoundTrip == InitRoundTrip /\ [][SaveThenLoad]_vars

\* ------------------------------------------- invocations that overlap
\* main takes no lock on the file.  Each call it makes on the file is a step of
\* its own here: path.exists() with the read, File::create_new, the write_all
\* of the initial store, File::create of save, the write_all of save.

RECURSIVE EntriesLen(_)
\* length of the text of the entries, up to a constant per entry
EntriesLen(ts) ==
    IF ts = <<>> THEN 0
    ELSE Len(ts[1][2]) + (IF ts[1][3][1] = "None" THEN 4 ELSE 6 + Len(ts[1][3][2]))
         + Len(ts[1][6]) + 1 + EntriesLen(Tail(ts))

\* length of the text in the file; text left over behind a shorter write
\* (three components) is as long as the text that was there
TextLen(bytes) ==
    IF bytes = <<>> THEN 0
    ELSE IF Len(bytes) = 3 THEN bytes[3]
    ELSE Len(bytes[1]) + EntriesLen(bytes[2])

\* mutation of write_all: text that is already in the file is kept
write_all_keep(old, new) == IF old = <<>> THEN new ELSE old

\* file.write_all(serialized.as_bytes()) on a handle that stands at offset 0:
\* the text replaces what is in the file from the start; when another run has
\* written a longer text since this run emptied the file, the end of that
\* text stays behind the new one and the file no longer parses
write_all(old, new) ==
    IF TextLen(new) >= TextLen(old) THEN new
    ELSE <<"trailing", new, TextLen(old)>>

ProcSet(p, rec) == procs' = [procs EXCEPT ![p] = rec]

RunsStarted == procs[1].runs + procs[2].runs

SeqUnchanged == UNCHANGED <<wd_file, last, now, assigned, onlyAdds>>

\* Args::parse(): a run of `add <name> [description]` or of `list` begins
CStart(p, cmd, arg) ==
    /\ procs[p].pc = "idle"
    /\ RunsStarted < MaxConcRuns
    /\ ProcSet(p, [procs[p] EXCEPT !.pc = "start", !.cmd = cmd, !.arg = arg,
                                   !.res = "Running", !.runs = @ + 1])
    /\ UNCHANGED file
    /\ SeqUnchanged

\* get_or_create_file_file: path.exists(), and for a file that exists
\* File::open, read_to_string and ron::from_str
CExists(p) ==
    /\ procs[p].pc = "start"
    /\ IF ~file.exists
       THEN ProcSet(p, [procs[p] EXCEPT !.pc = "creating"])
       ELSE IF ~WellFormed(file.bytes)
       THEN ProcSet(p, [procs[p] EXCEPT !.pc = "idle", !.res = "ParseError"])
       ELSE ProcSet(p, [procs[p] EXCEPT !.pc = "loaded",
                                        !.wd = ron_from_str(file.bytes),
                                        !.base = ron_from_str(file.bytes)])
    /\ UNCHANGED file
    /\ SeqUnchanged

\* get_or_create_file_file: File::create_new(path), which fails when the file
\* has appeared since path.exists()
CCreateNew(p) ==
    /\ procs[p].pc = "creating"
    /\ IF file.exists
       THEN /\ ProcSet(p, [procs[p] EXCEPT !.pc = "idle", !.res = "IOError"])
            /\ UNCHANGED file
       ELSE /\ ProcSet(p, [procs[p] EXCEPT !.pc = "init_write"])
            /\ file' = [exists |-> TRUE, bytes |-> <<>>]
    /\ SeqUnchanged

\* get_or_create_file_file: write_all of the initial store, return Ok(wd_file)
CInitWrite(p) ==
    /\ procs[p].pc = "init_write"
    /\ file' = [exists |-> TRUE,
                bytes |-> write_all(file.bytes, ron_to_string(WorkDataFile_new))]
    /\ procs' = [q \in Procs |->
                   IF q = p
                   THEN [procs[p] EXCEPT !.pc = "loaded", !.wd = WorkDataFile_new,
                                         !.base = WorkDataFile_new, !.wrote = TRUE]
                   ELSE [procs[q] EXCEPT !.wrote = FALSE]]
    /\ SeqUnchanged

\* the arm of the match: Add calls add_entry and goes on to save, List prints
CArm(p) ==
    /\ procs[p].pc = "loaded"
    /\ IF procs[p].cmd = "add"
       THEN ProcSet(p, [procs[p] EXCEPT
                          !.pc = "save_create",
                          !.wd = add_entry(@, Name28, procs[p].arg, now, now)])
       ELSE ProcSet(p, [procs[p] EXCEPT !.pc = "idle", !.res = "Ok"])
    /\ UNCHANGED file
    /\ SeqUnchanged

\* WorkDataFile::save: File::create(path) makes the file or empties it
CSaveCreate(p) ==
    /\ procs[p].pc = "save_create"
    /\ file' = [exists |-> TRUE, bytes |-> <<>>]
    /\ ProcSet(p, [procs[p] EXCEPT !.pc = "save_write"])
    /\ SeqUnchanged

\* WorkDataFile::save: file.write_all(..), Ok(()), and main returns Ok(())
CSaveWrite(p) ==
    /\ procs[p].pc = "save_write"
    /\ file' = [exists |-> TRUE,
                bytes |-> write_all(file.bytes, ron_to_string(procs[p].wd))]
    /\ procs' = [q \in Procs |->
                   IF q = p
                   THEN [procs[p] EXCEPT !.pc = "idle", !.res = "Ok", !.wrote = TRUE]
                   ELSE [procs[q] EXCEPT !.wrote = FALSE]]
    /\ SeqUnchanged

NextConc ==
    \/ \E p \in Procs, arg \in OptDescriptions : CStart(p, "add", arg)
    \/ \E p \in Procs : CStart(p, "list", None)
    \/ \E p \in Procs : CExists(p)
    \/ \E p \in Procs : CCreateNew(p)
    \/ \E p \in Procs : CInitWrite(p)
    \/ \E p \in Procs : CArm(p)
    \/ \E p \in Procs : CSaveCreate(p)
    \/ \E p \in Procs : CSaveWrite(p)

SpecConc == Init /\ [][NextConc]_vars

\* ------------------------------------------------------------ properties
\* the store a run that starts in this state works on
Loaded == get_or_create_file_file(file).wd

\* the entries the file holds
Stored == IF file.exists /\ WellFormed(file.bytes)
          THEN ron_from_str(file.bytes).entries ELSE <<>>

\* position of the entry with the given id, 0 if there is none
PosOf(entries, id) ==
    IF \E i \in DOMAIN entries : entries[i].id = id
    THEN CHOOSE i \in DOMAIN entries :
            /\ entries[i].id = id
            /\ \A j \in 1..(i - 1) : entries[j].id # id
    ELSE 0

UniqueIds(entries) ==
    \A i, j \in DOMAIN entries : i # j => entries[i].id # entries[j].id

MutatingCmds == {"add", "edit", "remove", "complete", "prio"}

\* C1: no two top-level entries have the same id, in the store in memory and
\* in the store on file, whatever commands have run.
C1_UniqueTopLevelIds == UniqueIds(wd_file.entries) /\ UniqueIds(Stored)

\* an add has just put a third entry behind two others
C1_Witness ==
    /\ last.cmd = "add" /\ last.res = "Ok"
    /\ Len(wd_file.entries) >= 3
    /\ Len(Stored) >= 3

\* C2: after every successful add, edit, remove, complete or prio the file
\* holds exactly the store the run ended with.
C2_MutationIsPersisted ==
    (last.cmd \in MutatingCmds /\ last.res = "Ok")
        => /\ file.exists
           /\ WellFormed(file.bytes)
           /\ ron_from_str(file.bytes) = wd_file

\* C3: a run that finds a well-formed file whose version is not
\* FileVersion::current() fails with VersionMismatch and leaves the file as it is.
C3_VersionGate ==
    [][(/\ file.exists
        /\ WellFormed(file.bytes)
        /\ ron_from_str(file.bytes).version # FileVersion_current
        /\ last'.res # "UsageError")
         => (last'.res = "VersionMismatch" /\ file' = file)]_vars

\* C4: a run that finds no file creates one that holds an empty store tagged
\* FileVersion::current(); a run that only reads ends with exactly that store.
C4_FreshStoreIsCurrent ==
    [][(~file.exists /\ last'.res # "UsageError")
         => /\ file'.exists
            /\ WellFormed(file'.bytes)
            /\ ron_from_str(file'.bytes).version = FileVersion_current
            /\ (last'.cmd \in {"none", "list", "list_all", "show"}
                  => /\ wd_file' = [version |-> FileVersion_current, entries |-> <<>>]
                     /\ file'.bytes = ron_to_string(wd_file'))]_vars

\* the ids of the Completed entries of a sequence, and the ids of the others
CompletedIds(entries) ==
    {entries[i].id : i \in {k \in DOMAIN entries : entries[k].status = "Completed"}}
OtherIds(entries) ==
    {entries[i].id : i \in {k \in DOMAIN entries : entries[k].status # "Completed"}}

\* C5: an entry that is Completed is still Completed after any run that leaves
\* it in the store, in memory and on file.
C5_CompletedStaysCompleted ==
    [][LET done == CompletedIds(Stored)
       IN /\ done \cap OtherIds(wd_file'.entries) = {}
          /\ done \cap OtherIds(Stored') = {}]_vars

\* a prio or an edit has just run successfully on a Completed entry
C5_Witness ==
    /\ last.cmd \in {"prio", "edit"} /\ last.res = "Ok"
    /\ \E i \in DOMAIN wd_file.entries :
          /\ Some(wd_file.entries[i].id) = last.id
          /\ wd_file.entries[i].status = "Completed"

\* C6: edit with status Created on a Completed entry succeeds and leaves the
\* entry Created.
C6_EditOverwritesStatus ==
    [][\A id \in Ids :
         (/\ last'.cmd = "edit" /\ last'.id = Some(id)
          /\ last'.status = Some("Created")
          /\ PosOf(Loaded.entries, id) # 0
          /\ Loaded.entries[PosOf(Loaded.entries, id)].status = "Completed")
           => /\ last'.res = "Ok"
              /\ PosOf(wd_file'.entries, id) # 0
              /\ wd_file'.entries[PosOf(wd_file'.entries, id)].status = "Created"]_vars

\* C7: complete on a Created entry makes it Completed, in memory and on file;
\* complete on a Completed entry fails with AlreadyCompleted, changes neither
\* the store nor the file and does not save.
C7_CompleteOnce ==
    [][\A id \in Ids :
         (/\ last'.cmd = "complete" /\ last'.id = Some(id)
          /\ PosOf(Loaded.entries, id) # 0)
           => IF Loaded.entries[PosOf(Loaded.entries, id)].status = "Created"
              THEN /\ last'.res = "Ok"
                   /\ wd_file'.entries[PosOf(wd_file'.entries, id)].status = "Completed"
                   /\ Stored'[PosOf(Stored', id)].status = "Completed"
              ELSE /\ last'.res = "AlreadyCompleted"
                   /\ ~last'.saved
                   /\ file' = file
                   /\ wd_file' = Loaded]_vars

\* a second complete of the same entry has just been refused
C7_Witness ==
    /\ last.cmd = "complete" /\ last.res = "AlreadyCompleted"
    /\ \E i \in DOMAIN Stored :
          Some(Stored[i].id) = last.id /\ Stored[i].status = "Completed"

\* C8: as long as every run was an add, the ids handed out are 0, 1, 2, ... in
\* call order, and the store holds them in that order.
C8_SuccessiveAddsCountFromZero ==
    onlyAdds =>
        /\ \A i \in DOMAIN assigned : assigned[i] = i - 1
        /\ Len(wd_file.entries) = Len(assigned)
        /\ \A i \in DOMAIN wd_file.entries : wd_file.entries[i].id = i - 1

\* three adds in a row on the empty store
C8_Witness == onlyAdds /\ Len(assigned) >= 3 /\ last.id = Some(2)

ListedActive == ListRows(Stored, FALSE, Len(Stored))
ListedAll == ListRows(Stored, TRUE, Len(Stored))

\* C11 as stated: after a successful prio the entry is the first row of list.
C11_PrioIsFirstListed ==
    (last.cmd = "prio" /\ last.res = "Ok")
        => (ListedActive # <<>> /\ Some(ListedActive[1].id) = last.id)

\* C11 as amended: after a successful prio the entry is the first row of
\* list --all; it is the first row of list when it is not Completed, and no row
\* of list when it is Completed.
C11_PrioIsFirstActive ==
    (last.cmd = "prio" /\ last.res = "Ok")
        => /\ ListedAll # <<>>
           /\ Some(ListedAll[1].id) = last.id
           /\ IF ListedAll[1].status = "Completed"
              THEN \A k \in DOMAIN ListedActive : Some(ListedActive[k].id) # last.id
              ELSE ListedActive # <<>> /\ Some(ListedActive[1].id) = last.id

\* a prio of a Created entry in a store that holds two more Created entries
C11_Witness ==
    /\ last.cmd = "prio" /\ last.res = "Ok"
    /\ Len(ListedActive) >= 3
    /\ Some(ListedActive[1].id) = last.id

\* C12: `show` without an id and the run without a command both give the entry
\* that is last in the store among those not Completed, which is the first row
\* of list, and give nothing exactly when no entry is left that is not Completed.
C12_DefaultIsLastActive ==
    ((last.cmd = "show" /\ last.id = None) \/ last.cmd = "none")
        => LET es == wd_file.entries
               active == {i \in DOMAIN es : es[i].status # "Completed"}
           IN /\ last.res = "Ok"
              /\ (active = {}) <=> (last.out = None)
              /\ active # {} =>
                    /\ \E i \in active :
                          /\ \A j \in active : j <= i
                          /\ last.out = Some(es[i])
                    /\ last.out[1] = ListRows(es, FALSE, Len(es))[1]

\* `show` has passed over a Completed entry at the end of the store and found
\* an earlier one, with another entry that is not Completed before that
C12_Witness ==
    /\ last.cmd = "show" /\ last.id = None /\ last.out # None
    /\ Len(wd_file.entries) >= 3
    /\ wd_file.entries[Len(wd_file.entries)].status = "Completed"
    /\ wd_file.entries[1].status = "Created"
    /\ last.out[1].id # wd_file.entries[1].id

\* C13: remove, complete, prio and edit with an id that no entry of the loaded
\* store has fail with NotFound; the run ends with the store as loaded, does not
\* save, and leaves the file as get_or_create_file_file left it.
C13_NotFoundLeavesNoTrace ==
    [][\A id \in Ids :
         (/\ last'.cmd \in {"remove", "complete", "prio", "edit"}
          /\ last'.id = Some(id)
          /\ last'.status = None
          /\ \A i \in DOMAIN Stored : Stored[i].id # id)
           => /\ last'.res = "NotFound"
              /\ ~last'.saved
              /\ wd_file'.entries = Stored
              /\ IF file.exists THEN file' = file
                 ELSE file' = [exists |-> TRUE, bytes |-> ron_to_string(WorkDataFile_new)]]_vars

\* a remove of an id that is not among the two or more entries of the store
C13_Witness ==
    /\ last.cmd = "remove" /\ last.res = "NotFound"
    /\ Len(Stored) >= 2
    /\ wd_file.entries = Stored

\* C18: add with a name of more than 28 characters fails with a validation
\* error, adds no entry and does not save; add with a name of 28 characters or
\* fewer succeeds and appends exactly one entry, which has that name.
C18_NameLimit ==
    [][\A name \in Names, description \in OptDescriptions, t1 \in Times, t2 \in Times :
         Add(name, description, t1, t2)
           => IF Len(name) > 28
              THEN /\ last'.res = "ValidationError"
                   /\ ~last'.saved
                   /\ wd_file'.entries = Stored
                   /\ Stored' = Stored
                   /\ file.exists => file' = file
              ELSE /\ last'.res = "Ok"
                   /\ last'.saved
                   /\ Len(Stored') = Len(Stored) + 1
                   /\ SubSeq(Stored', 1, Len(Stored)) = Stored
                   /\ Stored'[Len(Stored')].name = name
                   /\ wd_file'.entries = Stored']_vars

\* an add has been refused for its name while the store holds an entry whose
\* name has exactly 28 characters
C18_Witness ==
    /\ last.cmd = "add" /\ last.res = "ValidationError"
    /\ \E i \in DOMAIN Stored : Len(Stored[i].name) = 28

\* C19: every entry, in memory and on file, has modified_at >= created_at.
C19_ModifiedNotBeforeCreated ==
    /\ \A i \in DOMAIN wd_file.entries :
          wd_file.entries[i].modified_at >= wd_file.entries[i].created_at
    /\ \A i \in DOMAIN Stored : Stored[i].modified_at >= Stored[i].created_at

\* a complete or a prio has moved modified_at past created_at
C19_Witness ==
    /\ last.cmd \in {"complete", "prio"} /\ last.res = "Ok"
    /\ \E i \in DOMAIN Stored :
          /\ Some(Stored[i].id) = last.id
          /\ Stored[i].modified_at > Stored[i].created_at

\* C20: a successful prio leaves the other entries as they were and in the
\* order they had, and puts the entry last, equal to what it was except for
\* modified_at, which is the reading of the clock.
C20_PrioMovesOnlyThatEntry ==
    [][\A id \in Ids :
         (last'.cmd = "prio" /\ last'.id = Some(id) /\ last'.res = "Ok")
           => LET before == Stored
                  after == Stored'
                  i == PosOf(before, id)
                  n == Len(before)
              IN /\ i # 0
                 /\ Len(after) = n
                 /\ SubSeq(after, 1, n - 1) =
                       SubSeq(before, 1, i - 1) \o SubSeq(before, i + 1, n)
                 /\ after[n] = [before[i] EXCEPT !.modified_at = now']
                 /\ now' >= before[i].modified_at
                 /\ wd_file'.entries = after]_vars

\* the entry added first has been moved behind two others, one of them
\* Completed, at a later reading of the clock
C20_Witness ==
    /\ last.cmd = "prio" /\ last.res = "Ok" /\ last.id = Some(0)
    /\ Len(Stored) >= 3
    /\ Stored[Len(Stored)].id = 0
    /\ Stored[Len(Stored)].modified_at > Stored[Len(Stored)].created_at
    /\ Stored[1].id > Stored[2].id
    /\ \E i \in 1..2 : Stored[i].status = "Completed"

C17_AddChildAttaches ==
    [][\A p \in Ids :
         (last'.cmd = "add_child" /\ last'.id = Some(p))
           => LET i == PosOf(wd_file.entries, p)
              IN IF i # 0
                 THEN /\ last'.res = "Ok"
                      /\ Len(wd_file'.entries) = Len(wd_file.entries)
                      /\ Len(wd_file'.entries[i].children) =
                            Len(wd_file.entries[i].children) + 1
                 ELSE /\ last'.res = "NotFound"
                      /\ wd_file' = wd_file]_vars

\* a run of `add` by p has ended with Ok
AddDone(p) ==
    procs[p].pc = "idle" /\ procs[p].cmd = "add" /\ procs[p].res = "Ok"

C15_LoadSeesWholeFile ==
    [][\A p, q \in Procs :
         (/\ p # q
          /\ procs[q].pc = "save_write"
          /\ procs[p].pc = "start"
          /\ procs'[p].pc # "start")
           => procs'[p].res # "ParseError"]_vars

====
